---- MODULE Spec2Model ----
(***************************************************************************)
(* Product inventory: the Redux slice (src/src/store/productSlice.ts), the *)
(* API module with its Local Override Store (src/unnamed/part_001) and the *)
(* two localStorage keys they persist to.                                  *)
(*                                                                         *)
(* Strings that the code inspects character by character (title,           *)
(* description, searchTerm) are sequences of one-character strings; the    *)
(* other strings (category, image, messages) are only compared for         *)
(* equality and stay TLA+ strings.                                         *)
(***************************************************************************)
EXTENDS Integers, Sequences, FiniteSets, TLC

VARIABLES
    state,       \* the slice state (ProductState)
    storageA,    \* localStorage['productInventory']  (Snapshot A)
    storageB,    \* localStorage['local_products']    (Snapshot B)
    inflight,    \* thunks suspended at their network call
    now,         \* the reading of Date.now()
    issued,      \* number of commands and reloads so far (see MaxEvents)
    lastAction,  \* the last action the store reduced, and what the network answered
    touched,     \* per product id, the last local mutation the store applied to it
    throws,      \* number of localStorage.setItem calls that have thrown (the quota)
    deleted,     \* the ids a deleteProduct has been dispatched for, and those of the
                 \* local records clearLocalProducts removed
    locale,      \* the default locale of the runtime (what localeCompare collates by)
    shown        \* the ids of the product cards the page has displayed since it
                 \* loaded: an edit form opened on one of them (editingProduct) may
                 \* still be open

vars == <<state, storageA, storageB, inflight, now, issued, lastAction, touched, throws,
          deleted, locale, shown>>

\* a setItem has thrown in this run
quotaExceeded == throws > 0

-----------------------------------------------------------------------------
(* Bounds of the model *)

\* events per run: user commands (thunk dispatches, filter/sort commands,
\* stock edits, a call of clearLocalProducts) and events of the environment
\* (the clock reading advances, a localStorage.setItem throws, the page is
\* reloaded); settlements are not counted
MaxEvents == 3
\* the first clock reading of the run (a Date.now() timestamp, scaled down)
FirstNow == 3
\* created records in the Local Override Store where a run of the projection
\* commands starts (SpecProjection)
MaxLocal == 2

-----------------------------------------------------------------------------
(* Values *)

\* error: string | null
Null == "<null>"

\* one-character strings the model's titles, descriptions and search terms use
LowerOf == [c \in {"a", "b", "A", "B"} |->
              CASE c = "A" -> "a" [] c = "B" -> "b" [] OTHER -> c]

\* default locales of the runtime.  On these letters a collation differs in
\* two ways that vary independently: upper case first (mt-MT, da-DK) or lower
\* case first (en-US, nb-NO), and aa, Aa, AA taken for the letter a-ring,
\* which sorts after every other letter (da-DK, nb-NO), or for two letters
\* (en-US, mt-MT)
Locales == {"en-US", "mt-MT", "da-DK", "nb-NO"}

UpperFirst == locale \in {"mt-MT", "da-DK"}

ContractsAa == locale \in {"da-DK", "nb-NO"}

\* collation rank of a letter ignoring case (3: the a-ring, see ContractsAa)
LetterRank == [c \in DOMAIN LowerOf |-> IF LowerOf[c] = "a" THEN 1 ELSE 2]

\* case rank of a letter: lower case first, or upper case first where the
\* locale says so (1 is left to the mixed case of Aa)
CaseRank == [c \in DOMAIN LowerOf |->
                IF (LowerOf[c] = c) = UpperFirst THEN 2 ELSE 0]

Sign(n) == IF n < 0 THEN -1 ELSE IF n > 0 THEN 1 ELSE 0

\* lexicographic three-way comparison of two sequences of integers
RECURSIVE LexCompare(_, _)
LexCompare(s, t) ==
    IF s = <<>> /\ t = <<>> THEN 0
    ELSE IF s = <<>> THEN -1
    ELSE IF t = <<>> THEN 1
    ELSE IF Head(s) # Head(t) THEN Sign(Head(s) - Head(t))
    ELSE LexCompare(Tail(s), Tail(t))

\* String.prototype.toLowerCase
ToLowerCase(s) == [i \in 1..Len(s) |-> LowerOf[s[i]]]

\* String.prototype.includes
Includes(s, t) ==
    \E i \in 0..(Len(s) - Len(t)) : SubSeq(s, i + 1, i + Len(t)) = t

\* the collation elements of a string, as <<letter rank, case rank>> pairs:
\* one per letter, but one for aa, Aa and AA where the locale contracts them
RECURSIVE CollationElements(_)
CollationElements(s) ==
    IF s = <<>> THEN <<>>
    ELSE IF /\ ContractsAa
            /\ Len(s) >= 2
            /\ SubSeq(s, 1, 2) \in {<<"a", "a">>, <<"A", "a">>, <<"A", "A">>}
    THEN <<<<3, IF s[1] = s[2] THEN CaseRank[s[1]] ELSE 1>>>>
             \o CollationElements(SubSeq(s, 3, Len(s)))
    ELSE <<<<LetterRank[s[1]], CaseRank[s[1]]>>>> \o CollationElements(Tail(s))

\* String.prototype.localeCompare (collation of the default locale on
\* letters: the letters decide first, ignoring case; on a tie the case does)
LocaleCompare(a, b) ==
    LET ea == CollationElements(a)
        eb == CollationElements(b)
        primary == LexCompare([i \in 1..Len(ea) |-> ea[i][1]],
                              [i \in 1..Len(eb) |-> eb[i][1]])
    IN  IF primary # 0 THEN primary
        ELSE LexCompare([i \in 1..Len(ea) |-> ea[i][2]],
                        [i \in 1..Len(eb) |-> eb[i][2]])

\* Array.prototype.findIndex(p => p.id === id), 1-based; 0 when absent (-1)
FindIndex(s, id) ==
    IF \E i \in 1..Len(s) : s[i].id = id
    THEN CHOOSE i \in 1..Len(s) :
            s[i].id = id /\ \A j \in 1..(i - 1) : s[j].id # id
    ELSE 0

\* object spread { ...a, ...b }
Spread(a, b) ==
    [f \in DOMAIN a \cup DOMAIN b |-> IF f \in DOMAIN b THEN b[f] ELSE a[f]]

Ids(s) == {s[i].id : i \in 1..Len(s)}

\* Array.prototype.filter by index: the elements of s at the indices in keep
RECURSIVE PickFrom(_, _, _)
PickFrom(s, keep, i) ==
    IF i > Len(s) THEN <<>>
    ELSE IF i \in keep THEN <<s[i]>> \o PickFrom(s, keep, i + 1)
    ELSE PickFrom(s, keep, i + 1)

-----------------------------------------------------------------------------
(* Input universes *)

\* ProductFormData a user submits to create
CreateInputs ==
    { [title |-> <<"B">>, price |-> 5, description |-> <<"a", "b">>,
       category |-> "tools", image |-> "new.png", stock |-> 0],
      [title |-> <<"a">>, price |-> 5, description |-> <<"B">>,
       category |-> "toys", image |-> "new.png", stock |-> 4] }

\* Partial<ProductFormData> a user submits to update
UpdateInputs ==
    { [title |-> <<"A", "b">>, price |-> 7],
      [price |-> 9, stock |-> 0] }

\* records of the remote catalog, as GET /products returns them (no stock)
Remote(i, t, p, d, c) ==
    [id |-> i, title |-> t, price |-> p, description |-> d, category |-> c,
     image |-> "remote.png", rating |-> [rate |-> 4, count |-> 120]]

\* bodies GET /products may answer with; the second reuses the id a local
\* create takes at the first clock reading
RemoteResponses ==
    { << Remote(1, <<"A">>, 10, <<"b">>, "tools"),
         Remote(2, <<"b", "a">>, 5, <<"a">>, "toys") >>,
      << Remote(FirstNow, <<"A", "A">>, 1, <<"b">>, "toys"),
         Remote(1, <<"A">>, 10, <<"b">>, "tools") >> }

\* draws of (Math.floor(Math.random() * 100) + 1, Math.random() > 0.1),
\* one per record of a response
SynthDraws ==
    { << [stock |-> 1, inStock |-> TRUE], [stock |-> 100, inStock |-> FALSE] >>,
      << [stock |-> 100, inStock |-> TRUE], [stock |-> 1, inStock |-> TRUE] >> }

\* the second is in no title or description as written, in some when the
\* case is folded, and in none of most records
SearchTerms == { <<>>, <<"A", "B">> }
CategoryChoices == { "all", "tools" }
SortFields == { "name", "price", "none" }
StockEdits == { 0, 7 }

-----------------------------------------------------------------------------
(* localStorage *)

Absent == [kind |-> "absent"]
Corrupt == [kind |-> "corrupt"]

\* The JSON text of a value, kept as its syntax tree with the lexemes as
\* they are written: a number is its decimal digits, a boolean the literal
\* true or false, a string its characters between quotes, an array the
\* sequence of its elements and an object the sequence of its <<key, value>>
\* members.  The key a value is stored under tells which of these it is
\* ("state": the snapshot object; "products": an array of "product" objects).
NumberKeys == {"id", "price", "stock", "rate", "count"}
BooleanKeys == {"inStock"}
\* strings the model keeps as sequences of characters
TextKeys == {"title", "description", "searchTerm"}
ObjectKeys == {"state", "product", "rating"}
ArrayKeys == {"products"}

\* the order in which JSON.stringify writes the members of an object
KeyOrder ==
    << "id", "title", "price", "description", "category", "image", "rating",
       "rate", "count", "stock", "inStock", "products", "searchTerm",
       "selectedCategory", "sortBy", "sortOrder", "error" >>

DigitChars == << "0", "1", "2", "3", "4", "5", "6", "7", "8", "9" >>

\* the decimal digits of a natural number
RECURSIVE Digits(_)
Digits(n) ==
    IF n < 10 THEN << DigitChars[n + 1] >>
    ELSE Digits(n \div 10) \o << DigitChars[(n % 10) + 1] >>

\* the number a sequence of decimal digits denotes
RECURSIVE Number(_)
Number(ds) ==
    LET last == CHOOSE d \in 0..9 : DigitChars[d + 1] = ds[Len(ds)]
    IN  IF Len(ds) = 1 THEN last
        ELSE 10 * Number(SubSeq(ds, 1, Len(ds) - 1)) + last

RECURSIVE Encode(_, _)
Encode(k, v) ==
    CASE k \in NumberKeys -> Digits(v)
      [] k \in BooleanKeys -> IF v THEN "true" ELSE "false"
      [] k \in TextKeys -> << "\"" >> \o v \o << "\"" >>
      [] k \in ObjectKeys ->
            LET keys == SelectSeq(KeyOrder, LAMBDA key : key \in DOMAIN v)
            IN  [i \in 1..Len(keys) |-> << keys[i], Encode(keys[i], v[keys[i]]) >>]
      [] k \in ArrayKeys -> [i \in 1..Len(v) |-> Encode("product", v[i])]
      [] OTHER -> << "\"", v, "\"" >>

RECURSIVE Decode(_, _)
Decode(k, e) ==
    CASE k \in NumberKeys -> Number(e)
      [] k \in BooleanKeys -> e = "true"
      [] k \in TextKeys -> SubSeq(e, 2, Len(e) - 1)
      [] k \in ObjectKeys ->
            \* of two members with one key the later one counts
            [key \in {e[i][1] : i \in 1..Len(e)} |->
                LET i == CHOOSE j \in 1..Len(e) :
                             /\ e[j][1] = key
                             /\ \A l \in (j + 1)..Len(e) : e[l][1] # key
                IN  Decode(key, e[i][2])]
      [] k \in ArrayKeys -> [i \in 1..Len(e) |-> Decode("product", e[i])]
      [] OTHER -> e[2]

\* JSON.stringify(v), v being what the key k holds
JSONstringify(k, v) == [kind |-> "json", text |-> Encode(k, v)]
\* JSON.parse of a text JSON.stringify wrote
JSONparse(k, item) == Decode(k, item.text)

-----------------------------------------------------------------------------
(* src/unnamed/part_001: the Local Override Store *)

getLocalProducts(stored) ==
    IF stored.kind = "json" THEN JSONparse("products", stored) ELSE <<>>

\* a save that loses the stored value when setItem throws
saveLocalProducts_FailClears(stored, list, ok) ==
    IF ok THEN JSONstringify("products", list) ELSE Absent

\* the value of the key after saveLocalProducts; ok = setItem did not throw
saveLocalProducts(stored, list, ok) ==
    IF ok THEN JSONstringify("products", list) ELSE stored

\* an add that appends at the tail
addLocalProduct_Push(stored, product, ok) ==
    saveLocalProducts(stored, getLocalProducts(stored) \o <<product>>, ok)

addLocalProduct(stored, product, ok) ==
    saveLocalProducts(stored, <<product>> \o getLocalProducts(stored), ok)

\* an update that inserts the data when the id is absent
updateLocalProduct_Upsert(stored, id, updatedData, ok) ==
    LET localProducts == getLocalProducts(stored)
        index == FindIndex(localProducts, id)
    IN  IF index # 0
        THEN saveLocalProducts(stored,
                 [localProducts EXCEPT ![index] = Spread(@, updatedData)], ok)
        ELSE saveLocalProducts(stored,
                 localProducts \o <<Spread([id |-> id], updatedData)>>, ok)

updateLocalProduct(stored, id, updatedData, ok) ==
    LET localProducts == getLocalProducts(stored)
        index == FindIndex(localProducts, id)
    IN  IF index # 0
        THEN saveLocalProducts(stored,
                 [localProducts EXCEPT ![index] = Spread(@, updatedData)], ok)
        ELSE stored

deleteLocalProduct(stored, id, ok) ==
    saveLocalProducts(stored,
        SelectSeq(getLocalProducts(stored), LAMBDA p : p.id # id), ok)

-----------------------------------------------------------------------------
(* src/unnamed/part_001: productApi *)

\* response.data.map(product => ({...product, stock, inStock}))
AddStock(data, synth) ==
    [i \in 1..Len(data) |-> Spread(data[i], synth[i])]

\* allProducts.filter((product, index, self) =>
\*     index === self.findIndex(p => p.id === product.id))
Unique(allProducts) ==
    PickFrom(allProducts,
             {i \in 1..Len(allProducts) : i = FindIndex(allProducts, allProducts[i].id)},
             1)

\* a merge that puts the API records first, so that a remote record wins
getAllProductsOk_ApiFirst(stored, data, synth) ==
    Unique(AddStock(data, synth) \o getLocalProducts(stored))

\* getAllProducts when GET /products answers with data
\* a merge that returns the remote records only
getAllProductsOk_RemoteOnly(stored, data, synth) == AddStock(data, synth)

getAllProductsOk(stored, data, synth) ==
    LET apiProducts == AddStock(data, synth)
        localProducts == getLocalProducts(stored)
        allProducts == localProducts \o apiProducts
    IN  Unique(allProducts)

\* a catch branch that gives up the local records
getAllProductsFailed_Empty(stored) == <<>>

\* getAllProducts when GET /products fails (the catch branch)
getAllProductsFailed(stored) == getLocalProducts(stored)

\* how createProduct / updateProduct / deleteProduct of productApi end once the
\* mirror call (POST / PUT / DELETE) has settled: the inner try/catch logs a
\* failure and the function returns normally
\* a createProduct that lets the failure of POST /products escape
createProductEnds_Propagates(remote) ==
    IF remote = "failed" THEN "rejected" ELSE "fulfilled"

createProductEnds(remote) == "fulfilled"
updateProductEnds(remote) == "fulfilled"
deleteProductEnds(remote) == "fulfilled"

\* the commands a thunk can reject
RejectCommands == {"fetch", "create", "update", "delete"}

\* the message the thunk of cmd passes to rejectWithValue: error.message of
\* the Error productApi throws; that of an update or delete ends with the id
RejectMessage(cmd, id) ==
    CASE cmd = "fetch" -> "Failed to fetch products"
      [] cmd = "create" -> "Failed to create product"
      [] cmd = "update" -> "Failed to update product with id " \o ToString(id)
      [] cmd = "delete" -> "Failed to delete product with id " \o ToString(id)

\* the record createProduct builds from the form
NewProduct(productData, dateNow) ==
    [id |-> dateNow,
     title |-> productData.title,
     price |-> productData.price,
     description |-> productData.description,
     category |-> productData.category,
     image |-> productData.image,
     rating |-> [rate |-> 0, count |-> 0],
     stock |-> productData.stock,
     inStock |-> productData.stock > 0]

-----------------------------------------------------------------------------
(* src/src/store/productSlice.ts: persistence of the slice *)

\* {} when the key is absent or its text does not parse
\* a load that turns a parse failure into an error state
loadStateFromStorage_ReportsError(stored) ==
    IF stored.kind = "json" THEN JSONparse("state", stored)
    ELSE IF stored.kind = "corrupt" THEN [error |-> "Failed to load state"]
    ELSE <<>>

\* a load that ignores what was stored
loadStateFromStorage_Forgets(stored) == <<>>

loadStateFromStorage(stored) ==
    IF stored.kind = "json" THEN JSONparse("state", stored) ELSE <<>>

\* a save that leaves the sort order out of the snapshot
saveStateToStorage_NoOrder(stored, st, ok) ==
    IF ok
    THEN JSONstringify("state",
             [products |-> st.products,
              searchTerm |-> st.searchTerm,
              selectedCategory |-> st.selectedCategory,
              sortBy |-> st.sortBy])
    ELSE stored

\* the value of the key after saveStateToStorage; ok = setItem did not throw
saveStateToStorage(stored, st, ok) ==
    IF ok
    THEN JSONstringify("state",
             [products |-> st.products,
              searchTerm |-> st.searchTerm,
              selectedCategory |-> st.selectedCategory,
              sortBy |-> st.sortBy,
              sortOrder |-> st.sortOrder])
    ELSE stored

initialState(stored) ==
    Spread([products |-> <<>>,
            filteredProducts |-> <<>>,
            loading |-> FALSE,
            error |-> Null,
            searchTerm |-> <<>>,
            selectedCategory |-> "all",
            sortBy |-> "none",
            sortOrder |-> "asc"],
           loadStateFromStorage(stored))

-----------------------------------------------------------------------------
(* src/src/store/productSlice.ts: filterAndSortProducts *)

\* a search that compares without folding the case
MatchesSearch_CaseSensitive(product, searchTerm) ==
    \/ Includes(product.title, searchTerm)
    \/ Includes(product.description, searchTerm)

MatchesSearch(product, searchTerm) ==
    \/ Includes(ToLowerCase(product.title), ToLowerCase(searchTerm))
    \/ Includes(ToLowerCase(product.description), ToLowerCase(searchTerm))

\* a callback that forgets the sort order
Comparator_IgnoresOrder(st, a, b) ==
    CASE st.sortBy = "name" -> LocaleCompare(a.title, b.title)
      [] st.sortBy = "price" -> a.price - b.price
      [] OTHER -> 0

\* the value the sort callback returns for (a, b)
Comparator(st, a, b) ==
    LET comparison == CASE st.sortBy = "name" -> LocaleCompare(a.title, b.title)
                        [] st.sortBy = "price" -> a.price - b.price
                        [] OTHER -> 0
    IN  IF st.sortOrder = "desc" THEN 0 - comparison ELSE comparison

\* a sort that orders ascending and reverses the result for desc
RECURSIVE SortProducts_ReverseForDesc(_, _)
SortProducts_ReverseForDesc(s, st) ==
    IF st.sortOrder = "desc"
    THEN LET asc == SortProducts_ReverseForDesc(s, [st EXCEPT !.sortOrder = "asc"])
         IN  [i \in 1..Len(asc) |-> asc[Len(asc) + 1 - i]]
    ELSE IF s = <<>> THEN <<>>
    ELSE LET sorted == SortProducts_ReverseForDesc(SubSeq(s, 1, Len(s) - 1), st)
             x == s[Len(s)]
             k == Cardinality({i \in 1..Len(sorted) :
                                  (CASE st.sortBy = "name" -> LocaleCompare(sorted[i].title, x.title)
                                     [] st.sortBy = "price" -> sorted[i].price - x.price
                                     [] OTHER -> 0) <= 0})
         IN  SubSeq(sorted, 1, k) \o <<x>> \o SubSeq(sorted, k + 1, Len(sorted))

\* Array.prototype.sort: stable, by insertion of each element after the
\* elements that do not compare greater than it
RECURSIVE SortProducts(_, _)
SortProducts(s, st) ==
    IF s = <<>> THEN <<>>
    ELSE LET sorted == SortProducts(SubSeq(s, 1, Len(s) - 1), st)
             x == s[Len(s)]
             k == Cardinality({i \in 1..Len(sorted) : Comparator(st, sorted[i], x) <= 0})
         IN  SubSeq(sorted, 1, k) \o <<x>> \o SubSeq(sorted, k + 1, Len(sorted))

\* the list filterAndSortProducts assigns to state.filteredProducts
Projection(st) ==
    LET all == st.products
        searched == IF st.searchTerm # <<>>
                    THEN SelectSeq(all, LAMBDA p : MatchesSearch(p, st.searchTerm))
                    ELSE all
        inCategory == IF st.selectedCategory # "all"
                      THEN SelectSeq(searched, LAMBDA p : p.category = st.selectedCategory)
                      ELSE searched
    IN  IF st.sortBy # "none" THEN SortProducts(inCategory, st) ELSE inCategory

filterAndSortProducts(st) == [st EXCEPT !.filteredProducts = Projection(st)]

-----------------------------------------------------------------------------
(* src/src/store/productSlice.ts: the reducers, as functions of the state.  *)
(* Those that call saveStateToStorage are followed by Save in the actions.  *)

setSearchTerm(st, payload) ==
    filterAndSortProducts([st EXCEPT !.searchTerm = payload])

setSelectedCategory(st, payload) ==
    filterAndSortProducts([st EXCEPT !.selectedCategory = payload])

\* a sort command that also clears the search term
setSorting_ResetsSearch(st, payload) ==
    filterAndSortProducts([st EXCEPT !.sortBy = payload.sortBy,
                                     !.sortOrder = payload.sortOrder,
                                     !.searchTerm = <<>>])

setSorting(st, payload) ==
    filterAndSortProducts([st EXCEPT !.sortBy = payload.sortBy,
                                     !.sortOrder = payload.sortOrder])

clearError(st) == [st EXCEPT !.error = Null]

\* a stock edit that leaves the view as it was
updateProductStock_StaleView(st, payload) ==
    LET index == FindIndex(st.products, payload.id)
    IN  IF index # 0
        THEN [st EXCEPT !.products[index] =
                 Spread(@, [stock |-> payload.stock, inStock |-> payload.inStock])]
        ELSE st

updateProductStock(st, payload) ==
    LET index == FindIndex(st.products, payload.id)
    IN  IF index # 0
        THEN filterAndSortProducts(
                 [st EXCEPT !.products[index] =
                     Spread(@, [stock |-> payload.stock, inStock |-> payload.inStock])])
        ELSE st

fetchPending(st) == [st EXCEPT !.loading = TRUE, !.error = Null]

\* a fulfilled case that keeps the list of the fetch fulfilled before it
fetchFulfilled_FirstWins(st, payload) ==
    IF st.products = <<>>
    THEN filterAndSortProducts([st EXCEPT !.loading = FALSE, !.products = payload])
    ELSE [st EXCEPT !.loading = FALSE]

fetchFulfilled(st, payload) ==
    filterAndSortProducts([st EXCEPT !.loading = FALSE, !.products = payload])

fetchRejected(st, payload) == [st EXCEPT !.loading = FALSE, !.error = payload]

\* a pending case that only clears the error
createPending_NoLoading(st) == [st EXCEPT !.error = Null]

createPending(st) == [st EXCEPT !.loading = TRUE, !.error = Null]

\* a fulfilled case that leaves loading as it is
createFulfilled_KeepsLoading(st, payload) ==
    filterAndSortProducts([st EXCEPT !.products = <<payload>> \o @])

\* a fulfilled case that appends at the tail
createFulfilled_Push(st, payload) ==
    filterAndSortProducts([st EXCEPT !.loading = FALSE,
                                     !.products = @ \o <<payload>>])

createFulfilled(st, payload) ==
    filterAndSortProducts([st EXCEPT !.loading = FALSE,
                                     !.products = <<payload>> \o @])

createRejected(st, payload) == [st EXCEPT !.loading = FALSE, !.error = payload]

\* updateProduct.pending and deleteProduct.pending have no case in the slice
updatePending(st) == st

\* a merge in which the fields the record already has win
updateFulfilled_KeepsOld(st, payload) ==
    LET productIndex == FindIndex(st.products, payload.id)
    IN  IF productIndex # 0
        THEN filterAndSortProducts(
                 [st EXCEPT !.products[productIndex] = Spread(payload.data, @)])
        ELSE st

\* a fulfilled case that moves the merged record to the head of the list
updateFulfilled_MovesToHead(st, payload) ==
    LET productIndex == FindIndex(st.products, payload.id)
    IN  IF productIndex # 0
        THEN filterAndSortProducts(
                 [st EXCEPT !.products =
                     <<Spread(@[productIndex], payload.data)>>
                         \o PickFrom(@, (1..Len(@)) \ {productIndex}, 1)])
        ELSE st

updateFulfilled(st, payload) ==
    LET productIndex == FindIndex(st.products, payload.id)
    IN  IF productIndex # 0
        THEN filterAndSortProducts(
                 [st EXCEPT !.products[productIndex] = Spread(@, payload.data)])
        ELSE st

updateRejected(st, payload) == [st EXCEPT !.error = payload]

deletePending(st) == st

\* a fulfilled case that only recomputes the view
deleteFulfilled_Keeps(st, payload) == filterAndSortProducts(st)

deleteFulfilled(st, payload) ==
    filterAndSortProducts(
        [st EXCEPT !.products = SelectSeq(@, LAMBDA p : p.id # payload)])

\* a rejected case that forgets the message
deleteRejected_NoError(st, payload) == st

deleteRejected(st, payload) == [st EXCEPT !.error = payload]

-----------------------------------------------------------------------------------------------------------------------------------------------------
(* The store and the thunks.  A thunk's dispatch runs, in one step, the     *)
(* pending reducer and the payload creator up to its network call; the      *)
(* settlement of the call runs the rest of the payload creator and the      *)
(* fulfilled (or rejected) reducer in one step.                             *)

\* remote: what the network call behind the action did ("ok", "failed",
\* "none"); response: the body GET /products answered with
Action(type, payload, remote, response) ==
    [type |-> type, payload |-> payload, remote |-> remote, response |-> response]

NoTouch == [id \in {} |-> <<>>]

\* ProductList: the ids of the cards the page displays in state st: those of
\* filteredProducts, and none while loading or error is set
Displayed(st) ==
    IF st.loading \/ st.error # Null THEN {} ELSE Ids(st.filteredProducts)

Init ==
    /\ locale \in Locales
    /\ storageA \in {Absent, Corrupt}
    /\ storageB = storageA
    /\ state = initialState(storageA)
    /\ inflight = {}
    /\ now = FirstNow
    /\ issued = 0
    /\ lastAction = Action("@@INIT", <<>>, "none", <<>>)
    /\ touched = NoTouch
    /\ throws = 0
    /\ deleted = {}
    /\ shown = Displayed(state)

\* what one localStorage.setItem call does: TRUE, it stores; FALSE, it throws
\* (the quota).  Each call has its own outcome: the item written, its size
\* and what the storage holds at that moment decide it.  A throw counts as
\* an event of the run (see MaxEvents).
SetItemOutcomes == IF issued' + throws < MaxEvents THEN BOOLEAN ELSE {TRUE}

\* the step called setItem and it threw, or not
Threw(threw) == throws' = throws + (IF threw THEN 1 ELSE 0)

\* the reducer called saveStateToStorage(state')
Save ==
    \E ok \in SetItemOutcomes :
        /\ storageA' = saveStateToStorage(storageA, state', ok)
        /\ Threw(~ok)

\* a reducer case that does not call saveStateToStorage
NoSave == UNCHANGED storageA /\ Threw(FALSE)

\* a thunk's synchronous prefix rewrote the local store: written[ok] is what
\* the item holds afterwards, `writes` whether setItem was called at all
SaveLocal(written, writes) ==
    \E ok \in SetItemOutcomes :
        /\ storageB' = written[ok]
        /\ Threw(writes /\ ~ok)

\* the page renders the new state
Shows == shown' = shown \cup Displayed(state')

\* a thunk is dispatched and suspends at its network call
Issue(task) ==
    /\ issued + throws < MaxEvents
    /\ issued' = issued + 1
    /\ inflight' = inflight \cup {task @@ [n |-> issued + 1]}

\* the network call of a suspended thunk settles
Settles(t) ==
    /\ inflight' = inflight \ {t}
    /\ UNCHANGED issued

\* an event that suspends nothing
Command ==
    /\ issued + throws < MaxEvents
    /\ issued' = issued + 1
    /\ UNCHANGED inflight

\* dispatch(fetchProducts())
DispatchFetch ==
    /\ Issue([cmd |-> "fetch"])
    /\ state' = fetchPending(state)
    /\ lastAction' = Action("products/fetchProducts/pending", <<>>, "none", <<>>)
    /\ Threw(FALSE)
    /\ UNCHANGED <<storageA, storageB, now, touched, deleted, locale>>
    /\ Shows

\* a getAllProducts that stores the merged list as the local records
FetchSucceeds_StoresMerge ==
    \E t \in inflight, data \in RemoteResponses :
    \E synth \in SynthDraws :
        /\ t.cmd = "fetch"
        /\ Settles(t)
        /\ LET payload == getAllProductsOk(storageB, data, synth)
           IN  /\ state' = fetchFulfilled(state, payload)
               /\ lastAction' = Action("products/fetchProducts/fulfilled", payload, "ok", data)
               /\ storageB' = saveLocalProducts(storageB, payload, TRUE)
        /\ Save
        /\ UNCHANGED <<now, touched, deleted, locale>>
        /\ Shows

\* GET /products answers: getAllProducts merges, fetchProducts.fulfilled
FetchSucceeds ==
    \E t \in inflight, data \in RemoteResponses :
    \E synth \in SynthDraws :
        /\ t.cmd = "fetch"
        /\ Settles(t)
        /\ LET payload == getAllProductsOk(storageB, data, synth)
           IN  /\ state' = fetchFulfilled(state, payload)
               /\ lastAction' = Action("products/fetchProducts/fulfilled", payload, "ok", data)
        /\ Save
        /\ UNCHANGED <<storageB, now, touched, deleted, locale>>
        /\ Shows

\* GET /products fails: getAllProducts returns the local records
FetchFails ==
    \E t \in inflight :
        /\ t.cmd = "fetch"
        /\ Settles(t)
        /\ LET payload == getAllProductsFailed(storageB)
           IN  /\ state' = fetchFulfilled(state, payload)
               /\ lastAction' = Action("products/fetchProducts/fulfilled", payload, "failed", <<>>)
        /\ Save
        /\ UNCHANGED <<storageB, now, touched, deleted, locale>>
        /\ Shows

\* dispatch(createProduct(productData))
DispatchCreate ==
    \E productData \in CreateInputs :
        LET newProduct == NewProduct(productData, now)
        IN  /\ Issue([cmd |-> "create", data |-> newProduct])
            /\ state' = createPending(state)
            /\ SaveLocal([ok \in BOOLEAN |-> addLocalProduct(storageB, newProduct, ok)], TRUE)
            /\ lastAction' = Action("products/createProduct/pending", <<>>, "none", <<>>)
            /\ UNCHANGED <<storageA, now, touched, deleted, locale>>
            /\ Shows

\* POST /products settles, either way
CreateSettles ==
    \E t \in inflight, remote \in {"ok", "failed"} :
        /\ t.cmd = "create"
        /\ Settles(t)
        /\ IF createProductEnds(remote) = "fulfilled"
           THEN /\ state' = createFulfilled(state, t.data)
                /\ lastAction' = Action("products/createProduct/fulfilled", t.data, remote, <<>>)
                /\ touched' = (t.data.id :> [op |-> "create"]) @@ touched
                /\ Save
           ELSE /\ state' = createRejected(state, RejectMessage("create", t.data.id))
                /\ lastAction' = Action("products/createProduct/rejected",
                                        RejectMessage("create", t.data.id), remote, <<>>)
                /\ NoSave
                /\ UNCHANGED touched
        /\ UNCHANGED <<storageB, now, deleted, locale>>
        /\ Shows

\* what `touched` records of a fulfilled update: its data and dispatch number,
\* the updates of the same id still in flight, and the update it was applied
\* over when the two were in flight together (n = 0: none)
UpdateTouch(t) ==
    LET before == IF t.id \in DOMAIN touched THEN touched[t.id] ELSE [op |-> "none"]
        overlapped == before.op = "update" /\ t.n \in before.pending
    IN  [op |-> "update", data |-> t.data, n |-> t.n,
         pending |-> {u.n : u \in {v \in inflight \ {t} : v.cmd = "update" /\ v.id = t.id}},
         prev |-> IF overlapped THEN [n |-> before.n, data |-> before.data]
                                ELSE [n |-> 0, data |-> t.data]]

\* Dashboard.handleFormSubmit with editingProduct set:
\* dispatch(updateProduct({id: editingProduct.id, data})); the product may
\* have left `products` since the form was opened
DispatchUpdate ==
    \E id \in shown, data \in UpdateInputs :
        /\ Issue([cmd |-> "update", id |-> id, data |-> data])
        /\ state' = updatePending(state)
        /\ SaveLocal([ok \in BOOLEAN |-> updateLocalProduct(storageB, id, data, ok)],
                     FindIndex(getLocalProducts(storageB), id) # 0)
        /\ lastAction' = Action("products/updateProduct/pending", <<>>, "none", <<>>)
        /\ UNCHANGED <<storageA, now, touched, deleted, locale>>
        /\ Shows

\* PUT /products/{id} settles, either way
UpdateSettles ==
    \E t \in inflight, remote \in {"ok", "failed"} :
        /\ t.cmd = "update"
        /\ Settles(t)
        /\ IF updateProductEnds(remote) = "fulfilled"
           THEN LET payload == [id |-> t.id, data |-> t.data]
                IN  /\ state' = updateFulfilled(state, payload)
                    /\ lastAction' = Action("products/updateProduct/fulfilled", payload, remote, <<>>)
                    /\ IF FindIndex(state.products, t.id) # 0
                       THEN /\ Save
                            /\ touched' = (t.id :> UpdateTouch(t)) @@ touched
                       ELSE NoSave /\ UNCHANGED touched
           ELSE /\ state' = updateRejected(state, RejectMessage("update", t.id))
                /\ lastAction' = Action("products/updateProduct/rejected",
                                        RejectMessage("update", t.id), remote, <<>>)
                /\ NoSave
                /\ UNCHANGED touched
        /\ UNCHANGED <<storageB, now, deleted, locale>>
        /\ Shows

\* dispatch(deleteProduct(id))
DispatchDelete ==
    \E id \in Ids(state.products) :
        /\ Issue([cmd |-> "delete", id |-> id])
        /\ state' = deletePending(state)
        /\ SaveLocal([ok \in BOOLEAN |-> deleteLocalProduct(storageB, id, ok)], TRUE)
        /\ lastAction' = Action("products/deleteProduct/pending", <<>>, "none", <<>>)
        /\ deleted' = deleted \cup {id}
        /\ UNCHANGED <<storageA, now, touched, locale>>
        /\ Shows

\* DELETE /products/{id} settles, either way
DeleteSettles ==
    \E t \in inflight, remote \in {"ok", "failed"} :
        /\ t.cmd = "delete"
        /\ Settles(t)
        /\ IF deleteProductEnds(remote) = "fulfilled"
           THEN /\ state' = deleteFulfilled(state, t.id)
                /\ lastAction' = Action("products/deleteProduct/fulfilled", t.id, remote, <<>>)
                /\ touched' = (t.id :> [op |-> "delete"]) @@ touched
                /\ Save
           ELSE /\ state' = deleteRejected(state, RejectMessage("delete", t.id))
                /\ lastAction' = Action("products/deleteProduct/rejected",
                                        RejectMessage("delete", t.id), remote, <<>>)
                /\ NoSave
                /\ UNCHANGED touched
        /\ UNCHANGED <<storageB, now, deleted, locale>>
        /\ Shows

\* dispatch(setSearchTerm(term))
SetSearchTerm ==
    \E term \in SearchTerms :
        /\ Command
        /\ state' = setSearchTerm(state, term)
        /\ lastAction' = Action("products/setSearchTerm", term, "none", <<>>)
        /\ Save
        /\ UNCHANGED <<storageB, now, touched, deleted, locale>>
        /\ Shows

\* dispatch(setSelectedCategory(category))
SetSelectedCategory ==
    \E category \in CategoryChoices :
        /\ Command
        /\ state' = setSelectedCategory(state, category)
        /\ lastAction' = Action("products/setSelectedCategory", category, "none", <<>>)
        /\ Save
        /\ UNCHANGED <<storageB, now, touched, deleted, locale>>
        /\ Shows

\* a handler that never toggles
handleSortChange_AlwaysAsc(st, newSortBy) == [sortBy |-> newSortBy, sortOrder |-> "asc"]

\* the payload SearchFilter.handleSortChange dispatches
handleSortChange(st, newSortBy) ==
    IF newSortBy = st.sortBy
    THEN [sortBy |-> newSortBy,
          sortOrder |-> IF st.sortOrder = "asc" THEN "desc" ELSE "asc"]
    ELSE [sortBy |-> newSortBy, sortOrder |-> "asc"]

\* SearchFilter.handleSortChange(newSortBy)
SetSorting ==
    \E newSortBy \in SortFields :
        LET payload == handleSortChange(state, newSortBy)
        IN  /\ Command
            /\ state' = setSorting(state, payload)
            /\ lastAction' = Action("products/setSorting", payload, "none", <<>>)
            /\ Save
            /\ UNCHANGED <<storageB, now, touched, deleted, locale>>
            /\ Shows

\* ProductCard.handleStockUpdate -> dispatch(updateProductStock(...))
UpdateProductStock ==
    \E id \in Ids(state.products), stock \in StockEdits :
        LET payload == [id |-> id, stock |-> stock, inStock |-> stock > 0]
        IN  /\ Command
            /\ state' = updateProductStock(state, payload)
            /\ lastAction' = Action("products/updateProductStock", payload, "none", <<>>)
            /\ touched' = (id :> [op |-> "stock",
                                  data |-> [stock |-> stock, inStock |-> stock > 0]]) @@ touched
            /\ Save
            /\ UNCHANGED <<storageB, now, deleted, locale>>
            /\ Shows

\* time passes: Date.now() reads one more
Tick ==
    /\ Command
    /\ now' = now + 1
    /\ Threw(FALSE)
    /\ UNCHANGED <<state, storageA, storageB, lastAction, touched, deleted, locale>>
    /\ Shows

\* productApi.clearLocalProducts(): the local_products item is removed
ClearLocalProducts ==
    /\ Command
    /\ storageB' = Absent
    /\ deleted' = deleted \cup Ids(getLocalProducts(storageB))
    /\ Threw(FALSE)
    /\ UNCHANGED <<state, storageA, now, lastAction, touched, locale>>
    /\ Shows

\* the page is reloaded: a new session starts from what localStorage holds
Reload ==
    /\ issued + throws < MaxEvents
    /\ issued' = issued + 1
    /\ state' = initialState(storageA)
    /\ inflight' = {}
    /\ lastAction' = Action("@@INIT", <<>>, "none", <<>>)
    /\ shown' = Displayed(state')
    /\ Threw(FALSE)
    /\ UNCHANGED <<storageA, storageB, now, touched, deleted, locale>>

Next ==
    \/ DispatchFetch \/ FetchSucceeds \/ FetchFails
    \/ DispatchCreate \/ CreateSettles
    \/ DispatchUpdate \/ UpdateSettles
    \/ DispatchDelete \/ DeleteSettles
    \/ SetSearchTerm \/ SetSelectedCategory \/ SetSorting
    \/ UpdateProductStock
    \/ Tick \/ ClearLocalProducts \/ Reload

Spec == Init /\ [][Next]_vars

-----------------------------------------------------------------------------
(* Fetches on their own, with the network fair to every request: GET        *)
(* /products is answered or fails, at the latest when the api instance's   *)
(* timeout of 10 s runs out.                                                *)

\* the request of fetch number n settles
FetchSettles(n) ==
    /\ \E t \in inflight : t.cmd = "fetch" /\ t.n = n /\ inflight' = inflight \ {t}
    /\ FetchFails \/ FetchSucceeds

FetchNext == DispatchFetch \/ FetchSucceeds \/ FetchFails

SpecFetch ==
    /\ Init
    /\ [][FetchNext]_vars
    /\ \A n \in 1..MaxEvents : WF_vars(FetchSettles(n))

-----------------------------------------------------------------------------
(* The slice reducer on its own: the store reduces any action dispatched to *)
(* it, whichever thunk or component it comes from.  SpecSlice drives the    *)
(* reducer with every action type of the slice, the rejected ones included, *)
(* which the thunks dispatch only when their payload creator throws.        *)

PendingTypes ==
    { "products/fetchProducts/pending", "products/createProduct/pending",
      "products/updateProduct/pending", "products/deleteProduct/pending" }
FulfilledTypes ==
    { "products/fetchProducts/fulfilled", "products/createProduct/fulfilled",
      "products/updateProduct/fulfilled", "products/deleteProduct/fulfilled" }
RejectedTypes ==
    { "products/fetchProducts/rejected", "products/createProduct/rejected",
      "products/updateProduct/rejected", "products/deleteProduct/rejected" }

\* productSlice.reducer(st, {type, payload})
reducer(st, type, payload) ==
    CASE type = "products/setSearchTerm" -> setSearchTerm(st, payload)
      [] type = "products/setSelectedCategory" -> setSelectedCategory(st, payload)
      [] type = "products/setSorting" -> setSorting(st, payload)
      [] type = "products/clearError" -> clearError(st)
      [] type = "products/updateProductStock" -> updateProductStock(st, payload)
      [] type = "products/fetchProducts/pending" -> fetchPending(st)
      [] type = "products/fetchProducts/fulfilled" -> fetchFulfilled(st, payload)
      [] type = "products/fetchProducts/rejected" -> fetchRejected(st, payload)
      [] type = "products/createProduct/pending" -> createPending(st)
      [] type = "products/createProduct/fulfilled" -> createFulfilled(st, payload)
      [] type = "products/createProduct/rejected" -> createRejected(st, payload)
      [] type = "products/updateProduct/pending" -> updatePending(st)
      [] type = "products/updateProduct/fulfilled" -> updateFulfilled(st, payload)
      [] type = "products/updateProduct/rejected" -> updateRejected(st, payload)
      [] type = "products/deleteProduct/pending" -> deletePending(st)
      [] type = "products/deleteProduct/fulfilled" -> deleteFulfilled(st, payload)
      [] type = "products/deleteProduct/rejected" -> deleteRejected(st, payload)
      [] OTHER -> st

\* whether the case of the reducer reaches its saveStateToStorage(state) call
reducerSaves(st, type, payload) ==
    \/ type \in { "products/setSearchTerm", "products/setSelectedCategory",
                  "products/setSorting", "products/fetchProducts/fulfilled",
                  "products/createProduct/fulfilled", "products/deleteProduct/fulfilled" }
    \/ /\ type \in { "products/updateProductStock", "products/updateProduct/fulfilled" }
       /\ FindIndex(st.products, payload.id) # 0

\* ids the slice-level actions name: one of the remote catalog, one local
SliceIds == { 1, FirstNow }

Reduce(type, payload) ==
    /\ issued + throws < MaxEvents
    /\ issued' = issued + 1
    /\ state' = reducer(state, type, payload)
    /\ lastAction' = Action(type, payload, "none", <<>>)
    /\ IF reducerSaves(state, type, payload) THEN Save ELSE NoSave
    /\ UNCHANGED <<storageB, inflight, now, touched, deleted, locale>>
    /\ Shows

ReducePending == \E type \in PendingTypes : Reduce(type, <<>>)

ReduceFetchFulfilled ==
    \E data \in RemoteResponses, synth \in SynthDraws :
        Reduce("products/fetchProducts/fulfilled", getAllProductsOk(storageB, data, synth))

ReduceCreateFulfilled ==
    \E productData \in CreateInputs :
        Reduce("products/createProduct/fulfilled", NewProduct(productData, now))

ReduceUpdateFulfilled ==
    \E id \in SliceIds, data \in UpdateInputs :
        Reduce("products/updateProduct/fulfilled", [id |-> id, data |-> data])

ReduceDeleteFulfilled ==
    \E id \in SliceIds : Reduce("products/deleteProduct/fulfilled", id)

ReduceRejected ==
    \E cmd \in RejectCommands, id \in SliceIds :
        Reduce(CASE cmd = "fetch" -> "products/fetchProducts/rejected"
                 [] cmd = "create" -> "products/createProduct/rejected"
                 [] cmd = "update" -> "products/updateProduct/rejected"
                 [] cmd = "delete" -> "products/deleteProduct/rejected",
               RejectMessage(cmd, id))

ReduceClearError == Reduce("products/clearError", <<>>)

ReduceSetSearchTerm ==
    \E term \in SearchTerms : Reduce("products/setSearchTerm", term)

ReduceSetSelectedCategory ==
    \E category \in CategoryChoices : Reduce("products/setSelectedCategory", category)

ReduceSetSorting ==
    \E newSortBy \in SortFields :
        Reduce("products/setSorting", handleSortChange(state, newSortBy))

ReduceUpdateProductStock ==
    \E id \in SliceIds, stock \in StockEdits :
        Reduce("products/updateProductStock",
               [id |-> id, stock |-> stock, inStock |-> stock > 0])

SliceNext ==
    \/ ReducePending \/ ReduceRejected \/ ReduceClearError
    \/ ReduceFetchFulfilled \/ ReduceCreateFulfilled
    \/ ReduceUpdateFulfilled \/ ReduceDeleteFulfilled
    \/ ReduceSetSearchTerm \/ ReduceSetSelectedCategory \/ ReduceSetSorting
    \/ ReduceUpdateProductStock

SpecSlice == Init /\ [][SliceNext]_vars

-----------------------------------------------------------------------------
(* Runs that start from empty stores and use the four thunks only.         *)

InitCrud == Init /\ storageA = Absent

CrudNext ==
    \/ DispatchFetch \/ FetchSucceeds \/ FetchFails
    \/ DispatchCreate \/ CreateSettles
    \/ DispatchUpdate \/ UpdateSettles
    \/ DispatchDelete \/ DeleteSettles
    \/ Tick

SpecCrud == InitCrud /\ [][CrudNext]_vars

-----------------------------------------------------------------------------
(* The projection on its own: the filter and sort commands applied to the   *)
(* list a fulfilled fetch has put in `products`, for every list the merge   *)
(* of a remote response with up to MaxLocal locally created records gives.  *)

\* Local Override Stores of up to MaxLocal created records, newest first
LocalStores ==
    { [i \in 1..Len(forms) |-> NewProduct(forms[i], FirstNow + Len(forms) - i)] :
          forms \in UNION { [1..n -> CreateInputs] : n \in 0..MaxLocal } }

InitProjection ==
    \E localProducts \in LocalStores, data \in RemoteResponses, synth \in SynthDraws :
        /\ locale \in Locales
        /\ storageB = IF localProducts = <<>> THEN Absent ELSE JSONstringify("products", localProducts)
        /\ LET payload == getAllProductsOk(storageB, data, synth)
           IN  /\ state = fetchFulfilled(initialState(Absent), payload)
               /\ lastAction = Action("products/fetchProducts/fulfilled", payload, "ok", data)
        /\ storageA = saveStateToStorage(Absent, state, TRUE)
        /\ inflight = {}
        /\ now = FirstNow + MaxLocal
        /\ issued = 0
        /\ touched = NoTouch
        /\ throws = 0
        /\ deleted = {}
        /\ shown = Displayed(state)

ProjectionNext ==
    \/ ReduceSetSearchTerm \/ ReduceSetSelectedCategory \/ ReduceSetSorting

SpecProjection == InitProjection /\ [][ProjectionNext]_vars

-----------------------------------------------------------------------------
(* Claims *)

Count(s, id) == Cardinality({i \in 1..Len(s) : s[i].id = id})

\* a record without the two synthesized inventory fields
WithoutStock(r) == [f \in DOMAIN r \ {"stock", "inStock"} |-> r[f]]

\* this step settles a fetch whose GET /products ended as `remote`
FetchSettlesWith(remote) ==
    /\ \E t \in inflight \ inflight' : t.cmd = "fetch"
    /\ lastAction'.remote = remote

FetchFulfilledAfter(remote) ==
    /\ lastAction.type = "products/fetchProducts/fulfilled"
    /\ lastAction.remote = remote

\* C1: in every reachable state no two records of `products` share an id.
C1_UniqueIds ==
    \A i, j \in 1..Len(state.products) :
        i # j => state.products[i].id # state.products[j].id

\* C2: in every reachable state `filteredProducts` is the projection (filter,
\* then sort) of the current `products` under the current settings.
C2_ProjectionCurrent == state.filteredProducts = Projection(state)

\* C3: after a successful getAllProducts, every id that the local records and
\* the remote response share occurs exactly once in the produced list (and so
\* in `products`), with the fields of the local record.
C3_LocalWins ==
    [][ FetchSettlesWith("ok") =>
            LET localProducts == getLocalProducts(storageB)
                produced == lastAction'.payload
            IN  \A id \in Ids(localProducts) \cap Ids(lastAction'.response) :
                    /\ Count(produced, id) = 1
                    /\ produced[FindIndex(produced, id)]
                           = localProducts[FindIndex(localProducts, id)]
                    /\ state'.products = produced ]_vars

C3_Witness ==
    /\ FetchFulfilledAfter("ok")
    /\ Ids(getLocalProducts(storageB)) \cap Ids(lastAction.response) # {}

\* C4: the list a successful getAllProducts produces is the local records in
\* stored order, followed by exactly the remote records whose id does not
\* occur earlier, in the order of the response.
C4_LocalThenRemote ==
    [][ FetchSettlesWith("ok") =>
            LET localProducts == getLocalProducts(storageB)
                response == lastAction'.response
                fresh == {i \in 1..Len(response) :
                             /\ response[i].id \notin Ids(localProducts)
                             /\ \A j \in 1..(i - 1) : response[j].id # response[i].id}
                produced == lastAction'.payload
                rest == SubSeq(produced, Len(localProducts) + 1, Len(produced))
            IN  /\ Len(produced) >= Len(localProducts)
                /\ SubSeq(produced, 1, Len(localProducts)) = localProducts
                /\ [i \in 1..Len(rest) |-> WithoutStock(rest[i])]
                       = PickFrom(response, fresh, 1) ]_vars

\* C5: when the remote request of a fetch fails, the fetch is fulfilled, not
\* rejected, `error` stays null and `products` is the Local Override Store's
\* records in stored order.
C5_FetchDegradesToLocal ==
    [][ FetchSettlesWith("failed") =>
            /\ lastAction'.type = "products/fetchProducts/fulfilled"
            /\ state'.error = Null
            /\ state'.products = getLocalProducts(storageB) ]_vars

C5_Witness ==
    /\ FetchFulfilledAfter("failed")
    /\ getLocalProducts(storageB) # <<>>
    /\ state.products = getLocalProducts(storageB)

\* C6: once an update of an id present in `products` has been fulfilled, then
\* after every later fulfilled fetch, with no update or delete of that id in
\* between or under way, the record of that id still carries the update's
\* fields.
C6_EditsSurviveFetch ==
    lastAction.type = "products/fetchProducts/fulfilled" =>
        \A id \in DOMAIN touched :
            (/\ touched[id].op = "update"
             /\ ~\E t \in inflight : t.cmd \in {"update", "delete"} /\ t.id = id)
            => \E i \in 1..Len(state.products) :
                   /\ state.products[i].id = id
                   /\ \A f \in DOMAIN touched[id].data :
                          state.products[i][f] = touched[id].data[f]

\* C7: right after the pending step of fetch, create, update or delete,
\* loading = true and error = null.
C7_PendingSetsLoading ==
    lastAction.type \in PendingTypes =>
        state.loading = TRUE /\ state.error = Null

\* C8: right after the fulfilled step, and right after the rejected step, of
\* fetch, create, update or delete, loading = false.
C8_SettledClearsLoading ==
    lastAction.type \in FulfilledTypes \cup RejectedTypes => state.loading = FALSE

\* C9: the rejected step of each of the four commands sets `error` to a
\* message, not null, and changes neither `products`, `filteredProducts`, the
\* filter/sort settings nor Snapshot A.
C9_RejectedFrame ==
    [][ (lastAction'.type \in RejectedTypes /\ issued' # issued) =>
            /\ state'.error # Null
            /\ state'.error = lastAction'.payload
            /\ state'.products = state.products
            /\ state'.filteredProducts = state.filteredProducts
            /\ state'.searchTerm = state.searchTerm
            /\ state'.selectedCategory = state.selectedCategory
            /\ state'.sortBy = state.sortBy
            /\ state'.sortOrder = state.sortOrder
            /\ storageA' = storageA ]_vars

C9_Witness ==
    /\ lastAction.type = "products/deleteProduct/rejected"
    /\ \E id \in Ids(state.products) : state.error = RejectMessage("delete", id)
    /\ state.products # <<>>
    /\ storageA.kind = "json"

\* C10: when the mirror call of a create, update or delete fails, the command
\* is fulfilled, not rejected, `error` is not set, and the Local Override
\* Store keeps the mutation made before the call.
C10_MirrorFailureSwallowed ==
    [][ (/\ lastAction'.remote = "failed"
         /\ inflight' # inflight
         /\ lastAction'.type \notin {"products/fetchProducts/fulfilled",
                                     "products/fetchProducts/rejected"}) =>
            /\ lastAction'.type \in FulfilledTypes
            /\ state'.error = state.error
            /\ state'.error = Null
            /\ storageB' = storageB ]_vars

C10_Witness ==
    /\ lastAction.type = "products/createProduct/fulfilled"
    /\ lastAction.remote = "failed"
    /\ \E i \in 1..Len(getLocalProducts(storageB)) :
           getLocalProducts(storageB)[i] = lastAction.payload
    /\ state.products[1] = lastAction.payload

\* the fields of the state that Snapshot A persists
Persisted(st) ==
    [products |-> st.products,
     searchTerm |-> st.searchTerm,
     selectedCategory |-> st.selectedCategory,
     sortBy |-> st.sortBy,
     sortOrder |-> st.sortOrder]

\* the reducer steps that may change `products` or a filter/sort setting
MutatingTypes ==
    FulfilledTypes \cup
    { "products/setSearchTerm", "products/setSelectedCategory",
      "products/setSorting", "products/updateProductStock" }

\* C11: right after deleteProduct(id) is fulfilled, `products` holds no record
\* with that id, whether or not the Local Override Store ever held it, and
\* the other records of `products` keep their relative order.
C11_DeleteRemoves ==
    [][ (lastAction'.type = "products/deleteProduct/fulfilled" /\ inflight' # inflight) =>
            LET id == lastAction'.payload
                others == {i \in 1..Len(state.products) : state.products[i].id # id}
            IN  /\ Count(state'.products, id) = 0
                /\ state'.products = PickFrom(state.products, others, 1) ]_vars

\* a delete of a remote id (local ids start at FirstNow) that leaves records
C11_Witness ==
    /\ lastAction.type = "products/deleteProduct/fulfilled"
    /\ lastAction.payload < FirstNow
    /\ lastAction.payload \notin Ids(state.products)
    /\ state.products # <<>>

\* C12: while storage writes succeed, after every reducer step that changes
\* `products` or a filter/sort setting, Snapshot A holds exactly the current
\* products, searchTerm, selectedCategory, sortBy and sortOrder; a stored
\* snapshot is never behind the in-memory state.
C12_SnapshotCurrent ==
    ~quotaExceeded =>
        /\ lastAction.type \in MutatingTypes => storageA = JSONstringify("state", Persisted(state))
        /\ storageA.kind = "json" => JSONparse("state", storageA) = Persisted(state)

C12_Witness ==
    /\ ~quotaExceeded
    /\ lastAction.type = "products/setSorting"
    /\ state.sortOrder = "desc"
    /\ state.products # <<>>
    /\ storageA = JSONstringify("state", Persisted(state))

\* C13: loading the text that saving wrote returns the saved products,
\* searchTerm, selectedCategory, sortBy and sortOrder, field for field; the
\* initial state of a new session has exactly the products and settings of
\* the stored snapshot, which (no write having failed) are those the previous
\* session ended with.
C13_SaveLoadRoundTrip ==
    /\ [] /\ loadStateFromStorage(saveStateToStorage(storageA, state, TRUE))
                  = Persisted(state)
          /\ Persisted(initialState(saveStateToStorage(storageA, state, TRUE)))
                  = Persisted(state)
          /\ (lastAction.type = "@@INIT" /\ storageA.kind = "json") =>
                 Persisted(state) = JSONparse("state", storageA)
    /\ [][ (/\ lastAction'.type = "@@INIT"
            /\ issued' # issued
            /\ storageA.kind = "json"
            /\ ~quotaExceeded) => Persisted(state') = Persisted(state) ]_vars

\* a reloaded session that got products and a non-default setting back
C13_Witness ==
    /\ lastAction.type = "@@INIT"
    /\ issued > 0
    /\ storageA.kind = "json"
    /\ state.products # <<>>
    /\ state.sortBy # "none"
    /\ Persisted(state) = JSONparse("state", storageA)

\* C14: when two updates of the same id were in flight together and both are
\* fulfilled, every field both set has, in `products`, the value of the
\* fulfilment applied second, whichever of the two was dispatched first.
C14_LastFulfilmentWins ==
    lastAction.type = "products/updateProduct/fulfilled" =>
        LET id == lastAction.payload.id
            index == FindIndex(state.products, id)
        IN  (/\ index # 0
             /\ id \in DOMAIN touched
             /\ touched[id].op = "update"
             /\ touched[id].prev.n # 0)
            => \A f \in DOMAIN touched[id].data \cap DOMAIN touched[id].prev.data :
                   /\ touched[id].data = lastAction.payload.data
                   /\ state.products[index][f] = lastAction.payload.data[f]

\* the update dispatched first was applied second, on a field both set to
\* different values
C14_Witness ==
    /\ lastAction.type = "products/updateProduct/fulfilled"
    /\ LET id == lastAction.payload.id
       IN  /\ id \in DOMAIN touched
           /\ touched[id].op = "update"
           /\ touched[id].prev.n > touched[id].n
           /\ touched[id].prev.data.price # touched[id].data.price
           /\ state.products[FindIndex(state.products, id)].price = touched[id].data.price

\* fetch number n is pending
FetchPending(n) == \E t \in inflight : t.cmd = "fetch" /\ t.n = n

\* C15: a fetch dispatched while another is pending cancels neither: the
\* pending ones stay in flight, every pending fetch eventually settles, it
\* leaves only by its own fulfilled step, and after each fulfilled step
\* `products` is the payload of that, the latest, fulfilment.
C15_FetchesDoNotCancel ==
    /\ \A n \in 1..MaxEvents : FetchPending(n) ~> ~FetchPending(n)
    /\ [](lastAction.type = "products/fetchProducts/fulfilled" =>
              state.products = lastAction.payload)
    /\ [][ (\E t \in inflight' \ inflight : t.cmd = "fetch") =>
               /\ lastAction'.type = "products/fetchProducts/pending"
               /\ inflight \subseteq inflight' ]_vars
    /\ [][ \A t \in inflight \ inflight' :
               t.cmd = "fetch" =>
                   \/ /\ lastAction'.type = "products/fetchProducts/fulfilled"
                      /\ Cardinality(inflight \ inflight') = 1
                   \/ lastAction'.type = "@@INIT" ]_vars

\* one of two overlapping fetches has been fulfilled, the other is pending
C15_Witness ==
    /\ lastAction.type = "products/fetchProducts/fulfilled"
    /\ \E t \in inflight : t.cmd = "fetch"
    /\ state.products = lastAction.payload
    /\ state.products # <<>>

\* the create task a step has just put in flight (a set: empty or one task)
Created == {t \in inflight' \ inflight : t.cmd = "create"}

\* the ids create has assigned and that the run still knows: those in the
\* Local Override Store and those of the creates in flight
AssignedIds ==
    Ids(getLocalProducts(storageB)) \cup {t.data.id : t \in {u \in inflight : u.cmd = "create"}}

\* C16: every id create assigns is strictly greater than every id create
\* assigned before, also for two creates at the same clock reading.
C16_CreateIdsIncrease ==
    [][ \A t \in Created : \A id \in AssignedIds : t.data.id > id ]_vars

\* C17: a create puts its record at the head of the persisted Local Override
\* Store before the mirror call is issued or settles, with the records stored
\* before after it in unchanged order.
C17_CreateWritesHead ==
    [][ \A t \in Created :
            getLocalProducts(storageB') = <<t.data>> \o getLocalProducts(storageB) ]_vars

\* C17 (amended): while the write to localStorage succeeds, a create puts
\* its record at the head of the persisted Local Override Store before the
\* mirror call is issued or settles, with the records stored before after it
\* in unchanged order.
C17_CreateWritesHeadWhenWritable ==
    [][ \A t \in Created :
            throws' = throws =>
                getLocalProducts(storageB') = <<t.data>> \o getLocalProducts(storageB) ]_vars

\* the second create is pending, its mirror call unsettled, and its record
\* is already stored ahead of the first one
C17_Witness ==
    /\ ~quotaExceeded
    /\ lastAction.type = "products/createProduct/pending"
    /\ Len(getLocalProducts(storageB)) >= 2
    /\ \E t \in inflight :
           /\ t.cmd = "create"
           /\ t.n = issued
           /\ getLocalProducts(storageB)[1] = t.data

\* C18: right after a create is fulfilled the created record is the first
\* element of `products` and the records that were there before follow it in
\* unchanged order.
C18_CreatePrepends ==
    [][ (lastAction'.type = "products/createProduct/fulfilled" /\ inflight' # inflight) =>
            state'.products = <<lastAction'.payload>> \o state.products ]_vars

C18_Witness ==
    /\ lastAction.type = "products/createProduct/fulfilled"
    /\ Len(state.products) >= 2
    /\ state.products[1] = lastAction.payload
    /\ state.products[2].id # lastAction.payload.id

\* C19: an update of an id the Local Override Store does not hold leaves
\* Snapshot B unchanged, and the update is fulfilled all the same.
C19_UpdateOfForeignId ==
    /\ [][ \A t \in inflight' \ inflight :
               (t.cmd = "update" /\ t.id \notin Ids(getLocalProducts(storageB))) =>
                   storageB' = storageB ]_vars
    /\ [][ \A t \in inflight \ inflight' :
               (t.cmd = "update" /\ lastAction'.type # "@@INIT") =>
                   /\ lastAction'.type = "products/updateProduct/fulfilled"
                   /\ lastAction'.payload = [id |-> t.id, data |-> t.data]
                   /\ storageB' = storageB ]_vars

\* an update of a remote record has been fulfilled; the store holds a local
\* record but none with that id
C19_Witness ==
    /\ lastAction.type = "products/updateProduct/fulfilled"
    /\ lastAction.payload.id \notin Ids(getLocalProducts(storageB))
    /\ getLocalProducts(storageB) # <<>>
    /\ lastAction.payload.id \in Ids(state.products)

\* this step is a call of clearLocalProducts and nothing else
ClearsLocalStore ==
    /\ storageB' = Absent
    /\ deleted' = deleted \cup Ids(getLocalProducts(storageB))
    /\ issued' = issued + 1
    /\ state' = state
    /\ storageA' = storageA
    /\ lastAction'.type = lastAction.type
    /\ inflight' = inflight
    /\ now' = now
    /\ throws' = throws

SettingTypes ==
    {"products/setSearchTerm", "products/setSelectedCategory", "products/setSorting"}

\* C20: setSearchTerm, setSelectedCategory and setSorting (the steps that
\* count as an event and are neither a clock reading nor a reload nor a
\* call of clearLocalProducts) take one step, with
\* nothing put in flight and no rejected step; they leave `products`,
\* `loading`, `error` and the Local Override Store unchanged and change no
\* setting but the one addressed.
C20_SettingCommandsFrame ==
    [][ (/\ lastAction'.type \in SettingTypes
         /\ issued' # issued /\ now' = now
         /\ ~ClearsLocalStore) =>
            /\ inflight' = inflight
            /\ state'.products = state.products
            /\ state'.loading = state.loading
            /\ state'.error = state.error
            /\ storageB' = storageB
            /\ lastAction'.type # "products/setSearchTerm" =>
                   state'.searchTerm = state.searchTerm
            /\ lastAction'.type # "products/setSelectedCategory" =>
                   state'.selectedCategory = state.selectedCategory
            /\ lastAction'.type # "products/setSorting" =>
                   state'.sortBy = state.sortBy /\ state'.sortOrder = state.sortOrder
            /\ lastAction'.type = "products/setSearchTerm" =>
                   state'.searchTerm = lastAction'.payload
            /\ lastAction'.type = "products/setSelectedCategory" =>
                   state'.selectedCategory = lastAction'.payload
            /\ lastAction'.type = "products/setSorting" =>
                   /\ state'.sortBy = lastAction'.payload.sortBy
                   /\ state'.sortOrder = lastAction'.payload.sortOrder ]_vars

\* a search term set while a fetch is pending and products are on display
C20_Witness ==
    /\ lastAction.type = "products/setSearchTerm"
    /\ state.searchTerm # <<>>
    /\ state.products # <<>>
    /\ state.loading
    /\ inflight # {}

Flip(order) == IF order = "asc" THEN "desc" ELSE "asc"

\* the state after the sort command is called with newSortBy
AfterSort(st, newSortBy) == setSorting(st, handleSortChange(st, newSortBy))

\* C21: once a field is the sort field, calling the sort command with that
\* field flips sortOrder and calling it again flips it back, sortBy staying on
\* the field; a newly chosen field starts at asc, so it goes asc, desc, asc.
C21_SortToggle ==
    /\ \A f \in SortFields :
           LET s0 == AfterSort(state, f)
               s1 == AfterSort(s0, f)
               s2 == AfterSort(s1, f)
           IN  /\ s0.sortBy = f /\ s1.sortBy = f /\ s2.sortBy = f
               /\ f # state.sortBy => s0.sortOrder = "asc"
               /\ s1.sortOrder = Flip(s0.sortOrder)
               /\ s2.sortOrder = s0.sortOrder
    /\ (lastAction.type = "products/setSorting") =>
           /\ state.sortBy = lastAction.payload.sortBy
           /\ state.sortOrder = lastAction.payload.sortOrder

\* the sort command was called with the field that was the sort field
C21_Witness ==
    /\ lastAction.type = "products/setSorting"
    /\ state.sortBy = "price"
    /\ state.sortOrder = "desc"
    /\ AfterSort(state, "price").sortOrder = "asc"

\* s is a substring of t
IsSubstring(s, t) ==
    \E k \in 1..(Len(t) - Len(s) + 1) : SubSeq(t, k, k + Len(s) - 1) = s

\* the record passes the search and the category filter of the settings
Kept(p, st) ==
    /\ st.searchTerm # <<>> =>
           \/ IsSubstring(ToLowerCase(st.searchTerm), ToLowerCase(p.title))
           \/ IsSubstring(ToLowerCase(st.searchTerm), ToLowerCase(p.description))
    /\ st.selectedCategory # "all" => p.category = st.selectedCategory

\* the records of `products` that pass the filters, in the order of `products`
Filtered(st) ==
    PickFrom(st.products, {i \in 1..Len(st.products) : Kept(st.products[i], st)}, 1)

\* C22: with sortBy = none the projection is the order-preserving
\* subsequence of `products` of exactly the records that contain the
\* lower-cased searchTerm in the lower-cased title or description (when the
\* term is not empty) and have the selected category (when it is not "all");
\* it is what `filteredProducts` holds after every step that projects.
C22_FilterOnly ==
    state.sortBy = "none" =>
        /\ Projection(state) = Filtered(state)
        /\ lastAction.type \in MutatingTypes => state.filteredProducts = Filtered(state)

\* a search has kept a record that holds the term only when the case is
\* folded and has dropped a record of the selected category that does not
\* hold it; the category filter has dropped a record too
C22_Witness ==
    /\ state.sortBy = "none"
    /\ lastAction.type \in MutatingTypes
    /\ state.searchTerm # <<>>
    /\ state.selectedCategory # "all"
    /\ \E i \in 1..Len(state.filteredProducts) :
           /\ ~IsSubstring(state.searchTerm, state.filteredProducts[i].title)
           /\ ~IsSubstring(state.searchTerm, state.filteredProducts[i].description)
    /\ \E j \in 1..Len(state.products) :
           /\ state.products[j].category = state.selectedCategory
           /\ state.products[j].id \notin Ids(state.filteredProducts)
    /\ \E j \in 1..Len(state.products) :
           state.products[j].category # state.selectedCategory

\* the sort key of a is below (< 0), equal to (= 0) or above (> 0) that of b
KeyCompare(st, a, b) ==
    IF st.sortBy = "name" THEN LocaleCompare(a.title, b.title) ELSE Sign(a.price - b.price)

\* r is s with its records ordered by the sort key of st, ties in the order of s
StablySorted(r, s, st) ==
    /\ Len(r) = Len(s)
    /\ \A i \in 1..Len(s) :
           LET tie(p) == KeyCompare(st, p, s[i]) = 0
           IN  SelectSeq(r, tie) = SelectSeq(s, tie)
    /\ \A i \in 1..(Len(r) - 1) :
           IF st.sortOrder = "desc"
           THEN KeyCompare(st, r[i], r[i + 1]) >= 0
           ELSE KeyCompare(st, r[i], r[i + 1]) <= 0

\* C23: with sortBy = name or price the projection is a permutation of the
\* filtered records ordered by that key, ascending for asc and descending
\* for desc, records with equal keys keeping the order they have in
\* `products` in both directions; it is what `filteredProducts` holds after
\* every step that projects.
C23_StableSort ==
    state.sortBy # "none" =>
        /\ StablySorted(Projection(state), Filtered(state), state)
        /\ lastAction.type \in MutatingTypes =>
               StablySorted(state.filteredProducts, Filtered(state), state)

\* a descending sort by price with two records of the same price, which
\* keep their order, and a record of another price
C23_Witness ==
    /\ lastAction.type = "products/setSorting"
    /\ state.sortBy = "price"
    /\ state.sortOrder = "desc"
    /\ \E i \in 1..(Len(state.filteredProducts) - 1) :
           /\ state.filteredProducts[i].price = state.filteredProducts[i + 1].price
           /\ state.filteredProducts[i] # state.filteredProducts[i + 1]
    /\ \E i \in 1..(Len(state.filteredProducts) - 1) :
           state.filteredProducts[i].price > state.filteredProducts[i + 1].price

\* C24: projecting the projection again, under the same settings, gives the
\* same list in the same order, with and without a sort.
C24_ProjectionIdempotent ==
    LET once == Projection(state)
        twice == Projection([state EXCEPT !.products = once])
    IN  /\ twice = once
        /\ filterAndSortProducts([state EXCEPT !.products = once]).filteredProducts = once

\* a descending sort with two records of the same price, under a search
C24_Witness ==
    /\ state.sortBy = "price"
    /\ state.sortOrder = "desc"
    /\ state.searchTerm # <<>>
    /\ state.filteredProducts = Projection(state)
    /\ \E i \in 1..(Len(state.filteredProducts) - 1) :
           /\ state.filteredProducts[i].price = state.filteredProducts[i + 1].price
           /\ state.filteredProducts[i].id # state.filteredProducts[i + 1].id

\* the state of a session that found nothing to load
DefaultState ==
    [products |-> <<>>, filteredProducts |-> <<>>, loading |-> FALSE, error |-> Null,
     searchTerm |-> <<>>, selectedCategory |-> "all", sortBy |-> "none", sortOrder |-> "asc"]

\* C25: a missing or unparsable Snapshot A gives the default initial state, a
\* missing or unparsable Snapshot B reads as no local records, and no command
\* is rejected, nor `error` set, on their account.
C25_ReadFailureIsEmpty ==
    /\ [] /\ (lastAction.type = "@@INIT" /\ storageA.kind # "json") => state = DefaultState
          /\ storageB.kind # "json" => getLocalProducts(storageB) = <<>>
          /\ (storageA.kind # "json" \/ storageB.kind # "json") =>
                 /\ lastAction.type \notin RejectedTypes
                 /\ state.error = Null
    /\ [][ (FetchSettlesWith("failed") /\ storageB.kind # "json")
               => state'.products = <<>> ]_vars

\* a fetch whose remote request failed has been fulfilled over an unparsable
\* Snapshot B
C25_Witness ==
    /\ storageB = Corrupt
    /\ FetchFulfilledAfter("failed")
    /\ state.products = <<>>
    /\ state.error = Null

\* C26: when the write to Snapshot A or B fails, the command is fulfilled
\* all the same, the state after the step is the one the reducer gives
\* whatever the write does, and the stored snapshots keep their value.
C26_WriteFailureKeepsSnapshot ==
    [][ throws' > throws =>
            /\ storageA' = storageA
            /\ storageB' = storageB
            /\ lastAction'.type \notin RejectedTypes
            /\ (lastAction'.type \in MutatingTypes /\ now' = now) =>
                   state' = reducer(state, lastAction'.type, lastAction'.payload) ]_vars

\* a create fulfilled whose two setItem calls threw: in `products`, in no snapshot
C26_Witness ==
    /\ quotaExceeded
    /\ lastAction.type = "products/createProduct/fulfilled"
    /\ state.products # <<>>
    /\ state.products[1] = lastAction.payload
    /\ lastAction.payload.id \notin Ids(getLocalProducts(storageB))
    /\ storageA.kind # "json"

LoadingCommands == {"fetch", "create"}

\* C27: whenever no fetch and no create is in flight, loading = false.
C27_IdleNotLoading ==
    (~\E t \in inflight : t.cmd \in LoadingCommands) => state.loading = FALSE

\* a create has been fulfilled while an update is still in flight
C27_Witness ==
    /\ lastAction.type = "products/createProduct/fulfilled"
    /\ ~\E t \in inflight : t.cmd \in LoadingCommands
    /\ \E t \in inflight : t.cmd = "update"
    /\ state.loading = FALSE

\* C28: whenever a fetch or a create is in flight, loading = true, also
\* after an overlapping fetch or create has settled.
C28_LoadingWhileInFlight ==
    (\E t \in inflight : t.cmd \in LoadingCommands) => state.loading = TRUE

\* C28 (amended): the pending step of a fetch or create sets loading = true
\* and loading stays true until the next fetch or create settles (or the
\* page is reloaded), whichever of the overlapping commands that is.
C28_LoadingUntilSettlement ==
    /\ [][ (\E t \in inflight' \ inflight : t.cmd \in LoadingCommands) =>
               state'.loading = TRUE ]_vars
    /\ [][ (state.loading = TRUE /\ state'.loading = FALSE) =>
               \/ /\ \E t \in inflight \ inflight' : t.cmd \in LoadingCommands
                  /\ lastAction'.type \in FulfilledTypes \cup RejectedTypes
               \/ lastAction'.type = "@@INIT" ]_vars
    /\ [][ (\E t \in inflight \ inflight' : t.cmd \in LoadingCommands) =>
               state'.loading = FALSE ]_vars

\* a create was dispatched after one of two overlapping fetches had settled
C28_Witness ==
    /\ lastAction.type = "products/createProduct/pending"
    /\ state.loading = TRUE
    /\ state.products # <<>>
    /\ \E t \in inflight : t.cmd = "fetch"

\* C29: while storage writes succeed, once a create has been fulfilled and no
\* fetch is in flight, `products` holds a record with the created id, for
\* every interleaving of the create with fetches (no delete of the id ever
\* dispatched).
C29_CreateSurvivesFetch ==
    ~quotaExceeded =>
        \A id \in DOMAIN touched \ deleted :
            (/\ touched[id].op = "create"
             /\ ~\E t \in inflight : t.cmd = "fetch")
            => id \in Ids(state.products)

\* a fetch that answered has been fulfilled after the create, nothing is in
\* flight and the created record is there, ahead of the remote ones
C29_Witness ==
    /\ ~quotaExceeded
    /\ FetchFulfilledAfter("ok")
    /\ inflight = {}
    /\ \E id \in DOMAIN touched \ deleted :
           /\ touched[id].op = "create"
           /\ id \in Ids(state.products)
           /\ id \notin Ids(lastAction.response)
    /\ Len(state.products) > 1

\* C30: in a run from empty stores that uses fetch, create, update and
\* delete only, with storage writes succeeding: whenever no command is in
\* flight, every record of the Local Override Store is in `products` with the
\* same field values, whatever the order in which the network calls settled.
C30_LocalStoreInProducts ==
    (inflight = {} /\ ~quotaExceeded) =>
        \A i \in 1..Len(getLocalProducts(storageB)) :
            \E j \in 1..Len(state.products) :
                state.products[j] = getLocalProducts(storageB)[i]

\* C31: once deleteProduct(id) has been fulfilled no later state has a
\* record with that id in `products`, also after a later fulfilled fetch and
\* for ids of the remote catalog (ids a create holds or is assigning apart).
C31_DeletedStaysDeleted ==
    \A id \in DOMAIN touched :
        (touched[id].op = "delete" /\ id \notin AssignedIds)
        => id \notin Ids(state.products)

\* C32: the stock and inStock that updateProductStock wrote on a record are
\* still on the record of that id, also after a later fulfilled fetch (no
\* update or delete of the id fulfilled since, in flight or dispatched).
C32_StockEditSurvivesFetch ==
    \A id \in (DOMAIN touched \cap Ids(state.products)) \ deleted :
        (/\ touched[id].op = "stock"
         /\ ~\E t \in inflight : t.cmd = "update" /\ t.id = id)
        => LET p == state.products[FindIndex(state.products, id)]
           IN  /\ p.stock = touched[id].data.stock
               /\ p.inStock = touched[id].data.inStock

\* C33: every record of the Local Override Store has inStock = (stock > 0),
\* after any sequence of create and update commands.
C33_LocalInStockMatchesStock ==
    \A i \in 1..Len(getLocalProducts(storageB)) :
        LET p == getLocalProducts(storageB)[i]
        IN  p.inStock = (p.stock > 0)

\* C34: in every reachable state every record of `filteredProducts` is a
\* record of `products`, field for field, and `filteredProducts` is not
\* longer than `products`.
C34_FilteredWithinProducts ==
    /\ \A i \in 1..Len(state.filteredProducts) :
           \E j \in 1..Len(state.products) :
               state.products[j] = state.filteredProducts[i]
    /\ Len(state.filteredProducts) <= Len(state.products)

\* a stock edit has just changed a record that the view shows, and the view
\* leaves other records of `products` out
C34_Witness ==
    /\ lastAction.type = "products/updateProductStock"
    /\ \E i \in 1..Len(state.filteredProducts) :
           /\ state.filteredProducts[i].id = lastAction.payload.id
           /\ state.filteredProducts[i].stock = lastAction.payload.stock
    /\ Len(state.filteredProducts) < Len(state.products)

\* C35: the fulfilled step of an update keeps the length of `products`, the
\* id and the position of every record; it changes no record but the first
\* one with the given id, and on it only the fields the update data names;
\* when no record has the id, `products`, `filteredProducts` and Snapshot A
\* stay as they are.
C35_UpdateFulfilledFrame ==
    [][ \A t \in inflight \ inflight' :
            (t.cmd = "update" /\ lastAction'.type = "products/updateProduct/fulfilled") =>
                LET old == state.products
                    new == state'.products
                    index == FindIndex(old, t.id)
                IN  /\ Len(new) = Len(old)
                    /\ \A i \in 1..Len(old) :
                           /\ new[i].id = old[i].id
                           /\ DOMAIN new[i] \subseteq DOMAIN old[i] \cup DOMAIN t.data
                           /\ i # index => new[i] = old[i]
                           /\ \A f \in DOMAIN old[i] \ DOMAIN t.data : new[i][f] = old[i][f]
                    /\ index = 0 =>
                           /\ new = old
                           /\ state'.filteredProducts = state.filteredProducts
                           /\ storageA' = storageA ]_vars

\* an update has just been fulfilled on a record that is not the first of
\* several: the record has the new price and the title it had
C35_Witness ==
    /\ lastAction.type = "products/updateProduct/fulfilled"
    /\ Len(state.products) >= 2
    /\ FindIndex(state.products, lastAction.payload.id) > 1
    /\ "title" \notin DOMAIN lastAction.payload.data
    /\ state.products[FindIndex(state.products, lastAction.payload.id)].price
           = lastAction.payload.data.price

\* C36: a fetch never writes the Local Override Store: the step that
\* dispatches a fetch and the step that settles it, with the remote request
\* answered or failed, leave Snapshot B as it is.
C36_FetchKeepsLocalStore ==
    [][ (\E t \in (inflight' \ inflight) \cup (inflight \ inflight') : t.cmd = "fetch")
            => storageB' = storageB ]_vars

\* a fetch that answered has been fulfilled over a local record: `products`
\* holds more than the Local Override Store does
C36_Witness ==
    /\ FetchFulfilledAfter("ok")
    /\ getLocalProducts(storageB) # <<>>
    /\ Len(state.products) > Len(getLocalProducts(storageB))
    /\ state.products[1] = getLocalProducts(storageB)[1]

====
